---- MODULE Spec2Model ----
(***************************************************************************)
(* Model of the `logger` package (src/logger/logger.py and                 *)
(* src/logger/sanic_logger.py): the task-local correlation context, the    *)
(* JSON record formatters, the access-log middleware and the noise         *)
(* filters.                                                                *)
(*                                                                         *)
(* Text is modelled as a sequence of tokens.  A token is either one of the *)
(* two characters the serializer treats specially (the double quote Q and  *)
(* the backslash B), a JSON punctuation character, or an "atom": a run of  *)
(* ordinary characters that contains no quote, no backslash and no control *)
(* character, and that does not start with a JSON escape letter.           *)
(***************************************************************************)
EXTENDS Integers, Sequences, FiniteSets, TLC

(* ---------------------------- bounds ----------------------------------- *)

\* longest string value (in tokens) of a message handed to json_string
MaxLen == 2
\* tasks the event loop creates
MaxTasks == 2
\* inbound requests
MaxReq == 2
\* last value of the monotonic clock
MaxClock == 1
\* connections, where one suffices
MaxConn == 1
\* calls of configuration(), setup_logging() and setup_sanic_logging()
MaxCalls == 3

(* ---------------------------- text ------------------------------------- *)

Q == "\""
B == "\\"

\* the characters a modelled string value is made of
Alphabet == {"a", Q, B}

RECURSIVE SeqsUpTo(_, _)
SeqsUpTo(S, n) ==
    IF n = 0 THEN {<<>>}
    ELSE LET shorter == SeqsUpTo(S, n - 1)
         IN  shorter \cup {Append(s, x) : s \in {t \in shorter : Len(t) = n - 1}, x \in S}

(* Values of a message dict: a str, a number (kept as its literal), None,  *)
(* or an object the json module cannot serialize.                          *)
Str(s) == [t |-> "str", s |-> s]
Num(lit) == [t |-> "num", s |-> <<lit>>]
PyNone == [t |-> "null", s |-> <<>>]
Obj == [t |-> "obj", s |-> <<>>]

(* A dict is the sequence of its <<key, value>> items in insertion order.  *)
RECURSIVE DictIndex(_, _, _)
DictIndex(d, k, i) ==
    IF i > Len(d) THEN 0
    ELSE IF d[i][1] = k THEN i
    ELSE DictIndex(d, k, i + 1)

HasKey(d, k) == DictIndex(d, k, 1) # 0
Keys(d) == {d[i][1] : i \in 1..Len(d)}
Item(d, k) == d[DictIndex(d, k, 1)][2]

\* d[k] = v
DictSet(d, k, v) ==
    IF HasKey(d, k) THEN [d EXCEPT ![DictIndex(d, k, 1)] = <<k, v>>]
    ELSE Append(d, <<k, v>>)

(* ---------------------------- json.dumps ------------------------------- *)

RECURSIVE Escape(_)
Escape(s) ==
    IF s = <<>> THEN <<>>
    ELSE (IF Head(s) \in {Q, B} THEN <<B, Head(s)>> ELSE <<Head(s)>>) \o Escape(Tail(s))

DumpStr(s) == <<Q>> \o Escape(s) \o <<Q>>

DumpValue(v) ==
    CASE v.t = "str" -> DumpStr(v.s)
      [] v.t = "num" -> v.s
      [] v.t = "null" -> <<"null">>

\* json.dumps raises TypeError on a value it cannot serialize
Serializable(d) == \A i \in 1..Len(d) : d[i][2].t # "obj"

RECURSIVE DumpItems(_, _, _, _)
DumpItems(d, i, itemSep, keySep) ==
    IF i > Len(d) THEN <<>>
    ELSE (IF i > 1 THEN itemSep ELSE <<>>)
         \o DumpStr(<<d[i][1]>>) \o keySep \o DumpValue(d[i][2])
         \o DumpItems(d, i + 1, itemSep, keySep)

\* json.dumps(d, separators=(itemSep, keySep))
Dumps(d, itemSep, keySep) == <<"{">> \o DumpItems(d, 1, itemSep, keySep) \o <<"}">>

(* ---------------------------- str(dict) -------------------------------- *)

RECURSIVE ReprChars(_)
ReprChars(s) ==
    IF s = <<>> THEN <<>>
    ELSE (IF Head(s) = B THEN <<B, B>> ELSE <<Head(s)>>) \o ReprChars(Tail(s))

\* repr of a str with no single quote in it: single-quoted, backslashes doubled
ReprStr(s) == <<"'">> \o ReprChars(s) \o <<"'">>

ReprValue(v) ==
    CASE v.t = "str" -> ReprStr(v.s)
      [] v.t = "num" -> v.s
      [] v.t = "null" -> <<"None">>
      [] v.t = "obj" -> <<"<object>">>

RECURSIVE ReprItems(_, _)
ReprItems(d, i) ==
    IF i > Len(d) THEN <<>>
    ELSE (IF i > 1 THEN <<", ">> ELSE <<>>)
         \o ReprStr(<<d[i][1]>>) \o <<": ">> \o ReprValue(d[i][2])
         \o ReprItems(d, i + 1)

\* f'{message}'
PyStr(d) == <<"{">> \o ReprItems(d, 1) \o <<"}">>

(* ---------------------------- json_string ------------------------------ *)

(* s.replace('\\"', ''): every backslash-quote pair, scanning left to      *)
(* right, is dropped.  The pair cannot overlap itself, so the text may be  *)
(* cut anywhere but inside a pair and the parts scanned one by one.        *)
RECURSIVE StripEscapedQuotes(_)
StripEscapedQuotes(s) ==
    IF Len(s) < 2 THEN s
    ELSE IF Len(s) = 2 THEN (IF s = <<B, Q>> THEN <<>> ELSE s)
    ELSE LET half == Len(s) \div 2
             cut == IF s[half] = B /\ s[half + 1] = Q THEN half + 1 ELSE half
         IN  StripEscapedQuotes(SubSeq(s, 1, cut))
             \o StripEscapedQuotes(SubSeq(s, cut + 1, Len(s)))

ErrorPrefix == "Log message not serializabe to json: "

FallbackMessage(message) == <<<<"error", Str(<<ErrorPrefix>> \o PyStr(message))>>>>

json_string(message) ==
    LET s == IF Serializable(message)
             THEN Dumps(message, <<",">>, <<":">>)
             ELSE Dumps(FallbackMessage(message), <<",", " ">>, <<":", " ">>)
    IN  StripEscapedQuotes(s)

(* ---------------------------- json.loads ------------------------------- *)

ParseFail == [ok |-> FALSE, s |-> <<>>, next |-> 0]

RECURSIVE SkipWs(_, _)
SkipWs(text, i) == IF i <= Len(text) /\ text[i] = " " THEN SkipWs(text, i + 1) ELSE i

\* the string whose opening quote is before position j
RECURSIVE ScanStr(_, _, _)
ScanStr(text, j, acc) ==
    IF j > Len(text) THEN ParseFail
    ELSE IF text[j] = Q THEN [ok |-> TRUE, s |-> acc, next |-> j + 1]
    ELSE IF text[j] = B
         THEN IF j + 1 <= Len(text) /\ text[j + 1] \in {Q, B}
              THEN ScanStr(text, j + 2, Append(acc, text[j + 1]))
              ELSE ParseFail
    ELSE ScanStr(text, j + 1, Append(acc, text[j]))

Punctuation == {"{", "}", ",", ":", " ", Q, B}

ScanValue(text, i) ==
    IF i > Len(text) THEN [ok |-> FALSE, v |-> PyNone, next |-> 0]
    ELSE IF text[i] = Q
         THEN LET r == ScanStr(text, i + 1, <<>>)
              IN  [ok |-> r.ok, v |-> Str(r.s), next |-> r.next]
    ELSE IF text[i] = "null" THEN [ok |-> TRUE, v |-> PyNone, next |-> i + 1]
    ELSE IF text[i] \notin Punctuation
         THEN [ok |-> TRUE, v |-> Num(text[i]), next |-> i + 1]
    ELSE [ok |-> FALSE, v |-> PyNone, next |-> 0]

LoadsFail == [ok |-> FALSE, obj |-> <<>>]

\* the members of an object, from the start of a member at position i
RECURSIVE ScanMembers(_, _, _)
ScanMembers(text, i, acc) ==
    IF i > Len(text) \/ text[i] # Q THEN LoadsFail
    ELSE LET k == ScanStr(text, i + 1, <<>>)
             c == SkipWs(text, k.next)
             v == ScanValue(text, SkipWs(text, c + 1))
             e == SkipWs(text, v.next)
         IN  IF ~k.ok \/ Len(k.s) # 1 \/ c > Len(text) \/ text[c] # ":" THEN LoadsFail
             ELSE IF ~v.ok \/ e > Len(text) THEN LoadsFail
             ELSE IF text[e] = ","
                  THEN ScanMembers(text, SkipWs(text, e + 1), DictSet(acc, k.s[1], v.v))
             ELSE IF text[e] = "}" /\ SkipWs(text, e + 1) > Len(text)
                  THEN [ok |-> TRUE, obj |-> DictSet(acc, k.s[1], v.v)]
             ELSE LoadsFail

\* json.loads of the text of one JSON object
JsonLoads(text) ==
    LET i == SkipWs(text, 1)
    IN  IF i > Len(text) \/ text[i] # "{" THEN LoadsFail
        ELSE LET j == SkipWs(text, i + 1)
             IN  IF j <= Len(text) /\ text[j] = "}" /\ SkipWs(text, j + 1) > Len(text)
                 THEN [ok |-> TRUE, obj |-> <<>>]
                 ELSE ScanMembers(text, j, <<>>)

(* ---------------------------- context store -------------------------- *)

\* asyncio.current_task() when no task is running
NoTask == 0

\* a task without a `context` attribute
NoContext == 0

\* Optional values: what dict.get(name) and get_context_property return
None == [isNone |-> TRUE, v |-> 0]
Some(x) == [isNone |-> FALSE, v |-> x]

(* A context dict is a function from the names set so far to their values. *)
CtxGet(d, name, default) == IF name \in DOMAIN d THEN d[name] ELSE default
CtxPut(d, name, value) ==
    [x \in (DOMAIN d) \cup {name} |-> IF x = name THEN value ELSE d[x]]

(* The store: st.context[t] is the dict task t's `context` attribute refers *)
(* to (an index into st.heap, NoContext without the attribute); st.heap    *)
(* holds the dicts, so that two tasks may refer to one dict.               *)
\* a variant that keeps a context of its own for calls outside every task
set_context_property_fallback(st, current_task, name, value) ==
    IF current_task # NoTask
    THEN IF st.context[current_task] # NoContext
         THEN [st EXCEPT !.heap[st.context[current_task]] = CtxPut(@, name, value)]
         ELSE [context |-> [st.context EXCEPT ![current_task] = Len(st.heap) + 1],
               heap |-> Append(st.heap, name :> value)]
    ELSE [st EXCEPT !.heap = Append(@, name :> value)]

set_context_property(st, current_task, name, value) ==
    IF current_task # NoTask
    THEN IF st.context[current_task] # NoContext
         THEN [st EXCEPT !.heap[st.context[current_task]] = CtxPut(@, name, value)]
         ELSE [context |-> [st.context EXCEPT ![current_task] = Len(st.heap) + 1],
               heap |-> Append(st.heap, name :> value)]
    ELSE st

get_context_property(st, current_task, name) ==
    IF current_task # NoTask /\ st.context[current_task] # NoContext
    THEN IF name \in DOMAIN st.heap[st.context[current_task]]
         THEN Some(st.heap[st.context[current_task]][name])
         ELSE None
    ELSE None

\* a variant that hands the new task a copy of the dict
task_factory_copying(st, current_task, task) ==
    IF current_task # NoTask /\ st.context[current_task] # NoContext
    THEN [context |-> [st.context EXCEPT ![task] = Len(st.heap) + 1],
          heap |-> Append(st.heap, st.heap[st.context[current_task]])]
    ELSE [st EXCEPT !.context[task] = NoContext]

\* the new task refers to the current task's dict when that has one
task_factory(st, current_task, task) ==
    IF current_task # NoTask /\ st.context[current_task] # NoContext
    THEN [st EXCEPT !.context[task] = st.context[current_task]]
    ELSE [st EXCEPT !.context[task] = NoContext]

\* str(uuid.uuid4()): the n-th identifier drawn, distinct from all others
uuid4(n) == "uuid-" \o ToString(n)

\* a Python str as a message value ('' is the empty token sequence)
StrValue(x) == IF x = "" THEN Str(<<>>) ELSE Str(<<x>>)

add_task_properties(message, st, current_task) ==
    IF current_task # NoTask /\ st.context[current_task] # NoContext
    THEN LET d == st.heap[st.context[current_task]]
         IN  DictSet(DictSet(message, "request_id", StrValue(CtxGet(d, "req_id", ""))),
                     "session_id", StrValue(CtxGet(d, "session_id", "")))
    ELSE message

\* `x or default` for a str and for a number
OrStr(opt, default) == IF opt.isNone \/ opt.v = "" THEN default ELSE opt.v
OrNum(opt, default) == IF opt.isNone \/ opt.v = 0 THEN default ELSE opt.v

\* a variant that subtracts the wrong way round
elapsed_swapped(now, start) == OrNum(start, -1) - now

\* time.perf_counter() - (get_context_property('req_start') or -1)
elapsed(now, start) == now - OrNum(start, -1)

(* ---------------------------- JSONFormatter ---------------------------- *)

\* dir(record) of a LogRecord without extras, less the dunder names
LogRecordAttrs ==
    {"args", "created", "exc_info", "exc_text", "filename", "funcName", "getMessage",
     "levelname", "levelno", "lineno", "message", "module", "msecs", "msg", "name",
     "pathname", "process", "processName", "relativeCreated", "stack_info", "thread",
     "threadName"}

\* JSONFormatter.LogRecordFields before the first format call
NoFields == [isNone |-> TRUE, fields |-> {}]

\* getattr(record, 'type', 'log')
RecordType(record) ==
    IF HasKey(record.extra, "type") THEN Item(record.extra, "type") ELSE Str(<<"log">>)

RECURSIVE CopyExtras(_, _, _, _)
CopyExtras(message, extra, fields, i) ==
    IF i > Len(extra) THEN message
    ELSE CopyExtras(IF extra[i][1] \notin fields
                    THEN DictSet(message, extra[i][1], extra[i][2])
                    ELSE message,
                    extra, fields, i + 1)

\* [raised, message]: record.event_type raises AttributeError when it is not set
add_msg_type_properties(message, record) ==
    IF Item(message, "type") = Str(<<"log">>)
    THEN [raised |-> "",
          message |-> DictSet(DictSet(message, "function", Str(<<record.funcName>>)),
                              "file",
                              IF record.lineno # 0
                              THEN Str(<<record.filename, ":", ToString(record.lineno)>>)
                              ELSE Str(<<record.filename>>))]
    ELSE IF Item(message, "type") = Str(<<"event">>)
         THEN IF HasKey(record.extra, "event_type")
              THEN [raised |-> "",
                    message |-> DictSet(message, "event_type",
                                        Item(record.extra, "event_type"))]
              ELSE [raised |-> "AttributeError", message |-> message]
    ELSE [raised |-> "", message |-> message]

\* datetime.fromtimestamp(created).strftime('%Y-%m-%dT%H:%M:%S.%fZ'), created < 10
Strftime(created) == "1970-01-01T00:00:0" \o ToString(created) \o ".000000Z"

\* record.getMessage(): str(record.msg)
GetMessage(record) == IF record.msg.isNone THEN <<"None">> ELSE record.msg.v

\* the keys format sets before it copies the extras
BaseMessage(record) ==
    << <<"@timestamp", Str(<<Strftime(record.created)>>)>>,
       <<"level", Str(<<record.levelname>>)>>,
       <<"module", Str(<<record.module>>)>>,
       <<"message", Str(GetMessage(record))>>,
       <<"type", RecordType(record)>>,
       <<"logger", Str(<<record.name>>)>> >>

\* [fields, raised, text]: the memoized field set after the call, and the result
JSONFormatter_format(record, fields, st, current_task) ==
    LET memo == IF fields.isNone
                THEN [isNone |-> FALSE,
                      fields |-> LogRecordAttrs \cup Keys(record.extra)]
                ELSE fields
        copied == CopyExtras(BaseMessage(record), record.extra, memo.fields, 1)
        typed == add_msg_type_properties(copied, record)
    IN  IF typed.raised # ""
        THEN [fields |-> memo, raised |-> typed.raised, text |-> <<>>]
        ELSE [fields |-> memo, raised |-> "",
              text |-> json_string(add_task_properties(typed.message, st, current_task))]

(* ---------------------------- filters -------------------------------- *)

\* needle in hay, for token sequences
Contains(hay, needle) ==
    \E i \in 1..(Len(hay) + 1) :
        i + Len(needle) - 1 <= Len(hay) /\ SubSeq(hay, i, i + Len(needle) - 1) = needle

HealthzPath == <<"/healthz">>
KeepAliveNotice == <<"KeepAlive Timeout">>

(* A log record as the filters see it: hasRequest says whether the record  *)
(* has a `request` attribute, request.hasPath whether that has a `path`;   *)
(* msg is None or a token sequence.  A filter returns "pass" or "drop", or *)
(* "raise" when its expression raises.                                     *)
NoHealthzFilter_filter(record) ==
    IF ~record.hasRequest THEN "raise"
    ELSE IF record.request.hasPath
         THEN IF Contains(record.request.path, HealthzPath) THEN "drop" ELSE "pass"
    ELSE IF record.msg.isNone THEN "raise"
    ELSE IF Contains(record.msg.v, HealthzPath) THEN "drop" ELSE "pass"

KeepAliveTimeoutFilter_filter(record) ==
    IF record.msg.isNone THEN "raise"
    ELSE IF Contains(record.msg.v, KeepAliveNotice) THEN "drop" ELSE "pass"

(* ---------------------------- JSONReqFormatter ------------------------- *)

\* a variant that converts the seconds to milliseconds
round_to_millis(x) == x * 1000

\* round(x, 2) of a time that is a whole number of clock units
Round2(x) == x

\* headers.get(name, default)
HeaderGet(headers, name, default) ==
    IF HasKey(headers, name) THEN Item(headers, name) ELSE default

\* [raised, text] for an access record
JSONReqFormatter_format(record, st, current_task) ==
    LET rq == record.request
        rs == record.response
        host == IF rq.headers # <<>>
                THEN HeaderGet(rq.headers, "X-Forwarded-For", Str(<<rq.host>>))
                ELSE Str(<<rq.host>>)
        millis == Round2(record.time)
        status == IF ~rs.isNone /\ rs.hasStatus
                  THEN <<ToString(rs.status)>> ELSE <<>>
        base == << <<"@timestamp", Str(<<Strftime(record.created)>>)>>,
                   <<"level", Str(<<record.levelname>>)>>,
                   <<"message", Str(<<rq.method, " ">> \o rq.path
                                    \o <<" ">> \o status)>>,
                   <<"type", Str(<<"access">>)>>,
                   <<"method", Str(<<rq.method>>)>>,
                   <<"path", Str(rq.path)>>,
                   <<"remote", Str(<<rq.ip, ":", rq.port>>)>>,
                   <<"host", host>>,
                   <<"request_ms", Num(ToString(millis))>>,
                   <<"user_agent", HeaderGet(rq.headers, "user-agent", PyNone)>>,
                   <<"logger", Str(<<record.name>>)>> >>
        built   == IF ~rs.isNone
                   THEN DictSet(DictSet(base, "status_code",
                                        IF rs.hasStatus
                                        THEN Num(ToString(rs.status))
                                        ELSE Str(<<>>)),
                                "length",
                                IF rs.hasBody
                                THEN Num(ToString(rs.bodyLen))
                                ELSE Num(ToString(-1)))
                   ELSE DictSet(base, "type", Str(<<"ws_access">>))
    IN  [raised |-> "", text |-> json_string(add_task_properties(built, st, current_task))]

(* ---------------------------- configuration ------------------------- *)

(* Dicts are objects on a heap, `objs`: a dict maps its keys to values, and *)
(* a value is a scalar, written as Python writes it, or a reference to a   *)
(* dict.                                                                   *)
Scalar(s) == [ref |-> 0, v |-> s]
Ref(n) == [ref |-> n, v |-> ""]

\* the module-level dict DEFAULT_LOGGING
DEFAULT_LOGGING == 1

\* the dicts the literal DEFAULT_LOGGING builds when the module is imported
InitialObjects ==
    << ("version" :> Scalar("1")) @@ ("_type" :> Scalar("string"))
           @@ ("disable_existing_loggers" :> Scalar("False"))
           @@ ("formatters" :> Ref(2)) @@ ("handlers" :> Ref(4)) @@ ("loggers" :> Ref(6)),
       ("standard" :> Ref(3)),
       ("format" :> Scalar("%(asctime)s [%(levelname)s] %(name)s: %(message)s")),
       ("default" :> Ref(5)),
       ("level" :> Scalar("DEBUG")) @@ ("formatter" :> Scalar("standard"))
           @@ ("class" :> Scalar("logging.StreamHandler")),
       ("" :> Ref(7)),
       ("handlers" :> Scalar("['default']")) @@ ("level" :> Scalar("DEBUG"))
           @@ ("propagate" :> Scalar("True")) >>

\* d[k] = val on the dict r
SetItem(objs, r, k, val) == [objs EXCEPT ![r] = (k :> val) @@ @]

\* d[k] = {...}: a new dict, and the reference to it stored under k
SetNew(objs, r, k, d) == SetItem(Append(objs, d), r, k, Ref(Len(objs) + 1))

\* the value of a dict with the dicts it refers to, as == compares it
RECURSIVE Deep(_, _)
Deep(objs, r) ==
    [k \in DOMAIN objs[r] |->
        IF objs[r][k].ref = 0 THEN objs[r][k].v ELSE Deep(objs, objs[r][k].ref)]

\* [objs, config]: dict.copy() makes a new dict with the same values, references included
configuration(objs, kubernetes) ==
    LET config == Len(objs) + 1
        copied == Append(objs, objs[DEFAULT_LOGGING])
    IN  IF kubernetes
        THEN LET typed == SetItem(copied, config, "_type", Scalar("json"))
                 standard == Len(typed) + 1
                 made == Append(typed, "()" :> Scalar("JSONFormatter"))
             IN  [objs |-> SetNew(made, config, "formatters", "standard" :> Ref(standard)),
                  config |-> config]
        ELSE [objs |-> copied, config |-> config]

\* no config handed to setup_logging
NoConfig == 0

\* [objs, installed]: what logging.config.dictConfig is given
setup_logging(objs, config, kubernetes) ==
    LET c == IF config = NoConfig
             THEN configuration(objs, kubernetes)
             ELSE [objs |-> objs, config |-> config]
    IN  [objs |-> c.objs, installed |-> Deep(c.objs, c.config)]

\* the three sanic loggers
SanicLogger(handler) ==
    ("handlers" :> Scalar(handler)) @@ ("level" :> Scalar("DEBUG"))
        @@ ("propagate" :> Scalar("False"))

setup_sanic_logging(objs, kubernetes) ==
    LET c == configuration(objs, kubernetes)
        config == c.config
        handlers == c.objs[config]["handlers"].ref
        loggers == c.objs[config]["loggers"].ref
        formatters == c.objs[config]["formatters"].ref
        o1 == SetItem(c.objs, c.objs[handlers]["default"].ref, "filters",
                      Scalar("['keepalive_timeout']"))
        o2 == SetNew(o1, handlers, "request",
                     ("level" :> Scalar("INFO")) @@ ("formatter" :> Scalar("request"))
                         @@ ("class" :> Scalar("logging.StreamHandler"))
                         @@ ("filters" :> Scalar("['nohealthz']")))
        o3 == Append(Append(o2, "()" :> Scalar("NoHealthzFilter")),
                     "()" :> Scalar("KeepAliveTimeoutFilter"))
        o4 == SetNew(o3, config, "filters",
                     ("nohealthz" :> Ref(Len(o2) + 1))
                         @@ ("keepalive_timeout" :> Ref(Len(o2) + 2)))
        o5 == SetNew(o4, loggers, "sanic.root", SanicLogger("['default']"))
        o6 == SetNew(o5, loggers, "sanic.access", SanicLogger("['request']"))
        o7 == SetNew(o6, loggers, "sanic.error", SanicLogger("['default']"))
        o8 == IF o7[config]["_type"] = Scalar("string")
              THEN SetNew(o7, formatters, "request",
                          "format" :> Scalar("%(asctime)s [%(levelname)s] %(name)s: %(request)s"))
              ELSE SetNew(o7, formatters, "request", "()" :> Scalar("JSONReqFormatter"))
    IN  setup_logging(o8, config, kubernetes)

(* ---------------------------- state ------------------------------------ *)

VARIABLES
    nTasks,          \* tasks created so far: 1..nTasks
    context,         \* per task: the dict its `context` attribute refers to
    heap,            \* the context dicts
    parent,          \* per task: the task that was current when it was created
    inherited,       \* per task: that task had a context then
    serving,         \* per task: the request it works for (0: none)
    correlated,      \* per task: it took up its request after log_json_pre seeded it
    nReq,            \* requests received so far
    seeded,          \* per request: the req_id and req_start log_json_pre set
    sessionSet,      \* per request: application code has set session_id for it
    nUuid,           \* identifiers drawn from uuid4 so far
    clock,           \* time.perf_counter() and time.time()
    LogRecordFields, \* JSONFormatter.LogRecordFields of the configured formatter
    last,            \* the latest logging call and what became of its record
    jsMessage,       \* the message dict handed to json_string
    jsText,          \* the text json_string returned for it, NoText before the call
    objects,         \* the dicts of the logging configuration
    returned,        \* the dict the latest configuration() call returned
    installed,       \* the configuration logging.config.dictConfig was given last
    taskFactory,     \* the task factory of the event loop
    nCalls           \* calls of the configuration functions so far

storeVars == <<nTasks, context, heap, parent, inherited, serving, correlated, nReq,
               seeded, sessionSet, nUuid, clock>>
logVars == <<LogRecordFields, last>>
jsonVars == <<jsMessage, jsText>>
cfgVars == <<objects, returned, installed, taskFactory, nCalls>>
vars == <<storeVars, logVars, jsonVars, cfgVars>>

Tasks == 1..MaxTasks
Created == 1..nTasks
Store == [context |-> context, heap |-> heap]

NoText == <<"<no text>">>
NotSeeded == [req_id |-> "", req_start |-> -1]

(* `last` keeps, of the latest call of application code or middleware into *)
(* the package: op, "set" for set_context_property, "log" for a log call   *)
(* and "access" for log_json_post; the task that made it, the request that *)
(* task worked for and whether it was correlated and had a context then;   *)
(* the record, or the name and value set; the outcome, "delivered" when    *)
(* the formatted text was written to the stream; and that text.            *)
NoCall == [op |-> "none", task |-> NoTask, req |-> 0, correlated |-> FALSE,
           ambient |-> FALSE, record |-> <<>>, outcome |-> "none", text |-> <<>>]

InitStore ==
    /\ nTasks = 0
    /\ context = [t \in Tasks |-> NoContext]
    /\ heap = <<>>
    /\ parent = [t \in Tasks |-> NoTask]
    /\ inherited = [t \in Tasks |-> FALSE]
    /\ serving = [t \in Tasks |-> 0]
    /\ correlated = [t \in Tasks |-> FALSE]
    /\ nReq = 0
    /\ seeded = [r \in 1..MaxReq |-> NotSeeded]
    /\ sessionSet = [r \in 1..MaxReq |-> FALSE]
    /\ nUuid = 0
    /\ clock = 0

InitLog ==
    /\ LogRecordFields = NoFields
    /\ last = NoCall

InitJsonIdle ==
    /\ jsMessage = <<>>
    /\ jsText = NoText

\* nothing configured: the module has just been imported
NotInstalled == <<>>

InitModule ==
    /\ objects = InitialObjects
    /\ returned = NoConfig
    /\ installed = NotInstalled
    /\ taskFactory = "default"
    /\ nCalls = 0

\* the server has called setup_sanic_logging(app) once, in kubernetes
InitConfigured ==
    LET r == setup_sanic_logging(InitialObjects, TRUE)
    IN  /\ objects = r.objs
        /\ returned = NoConfig
        /\ installed = r.installed
        /\ taskFactory = "_task_factory"
        /\ nCalls = 1

Init == InitStore /\ InitLog /\ InitJsonIdle /\ InitConfigured

(* ---------------------------- inputs ----------------------------------- *)

\* a record made by logger.info(msg, extra=extra) in application code
AppRecord(msg, extra, created) ==
    [name |-> "app", levelname |-> "INFO", module |-> "views", msg |-> Some(msg),
     created |-> created, funcName |-> "handler", filename |-> "views.py", lineno |-> 12,
     extra |-> extra, hasRequest |-> FALSE]

Request(path, headers) ==
    [method |-> "GET", path |-> path, hasPath |-> TRUE, host |-> "svc",
     ip |-> "10.0.0.9", port |-> "4711", headers |-> headers]

Response(status) ==
    [isNone |-> FALSE, hasStatus |-> TRUE, status |-> status, hasBody |-> TRUE, bodyLen |-> 2]

ProxyHeaders == << <<"X-Forwarded-For", Str(<<"192.0.2.1">>)>>, <<"user-agent", Str(<<"curl">>)>> >>

Paths == {<<"/healthz">>, <<"/api/items">>, <<"/healthz", "/live">>}
Requests == {Request(p, ProxyHeaders) : p \in Paths}
Responses == {Response(200), Response(404)}

\* the request and response of the runs that are about the context store
PlainRequests == {Request(<<"/api/items">>, ProxyHeaders)}
PlainResponses == {Response(200)}
PlainRecords == {AppRecord(<<"hello">>, <<>>, clock)}

\* the values application code sets session_id to
SessionIds == {"s1", "s2"}
OneSessionId == {"s1"}
\* the names application code sets
AppNames == {"session_id"}

(* ---------------------------- event loop and middleware ---------------- *)

(* Application code runs outside every task (startup code), and in a task *)
(* that works for a request: the server runs no handler in a task that is  *)
(* between two requests.                                                   *)
AppRuns(cur) == IF cur = NoTask THEN TRUE ELSE serving[cur] # 0

\* the server creates a task from a protocol callback: no task is current
ServerAccept ==
    /\ nTasks < MaxTasks
    /\ LET t == nTasks + 1
           st == task_factory(Store, NoTask, t)
       IN  /\ nTasks' = t
           /\ context' = st.context
           /\ heap' = st.heap
           /\ parent' = [parent EXCEPT ![t] = NoTask]
           /\ inherited' = [inherited EXCEPT ![t] = FALSE]
           /\ serving' = [serving EXCEPT ![t] = 0]
           /\ correlated' = [correlated EXCEPT ![t] = FALSE]
    /\ UNCHANGED <<nReq, seeded, sessionSet, nUuid, clock, logVars, jsonVars, cfgVars>>

\* running task p calls loop.create_task
Spawn(p) ==
    /\ AppRuns(p)
    /\ nTasks < MaxTasks
    /\ LET t == nTasks + 1
           st == task_factory(Store, p, t)
       IN  /\ nTasks' = t
           /\ context' = st.context
           /\ heap' = st.heap
           /\ parent' = [parent EXCEPT ![t] = p]
           /\ inherited' = [inherited EXCEPT ![t] = (context[p] # NoContext)]
           /\ serving' = [serving EXCEPT ![t] = serving[p]]
           /\ correlated' = [correlated EXCEPT ![t] = correlated[p]]
    /\ UNCHANGED <<nReq, seeded, sessionSet, nUuid, clock, logVars, jsonVars, cfgVars>>

\* a server task that is between requests takes up the next request
RequestStart(t) ==
    /\ parent[t] = NoTask
    /\ serving[t] = 0
    /\ nReq < MaxReq
    /\ nReq' = nReq + 1
    /\ serving' = [serving EXCEPT ![t] = nReq + 1]
    /\ correlated' = [correlated EXCEPT ![t] = FALSE]
    /\ UNCHANGED <<nTasks, context, heap, parent, inherited, seeded, sessionSet, nUuid,
                   clock, logVars, jsonVars, cfgVars>>

\* the request middleware, run by the task of the request
log_json_pre(t) ==
    /\ parent[t] = NoTask
    /\ serving[t] # 0
    /\ ~correlated[t]
    /\ LET id == uuid4(nUuid + 1)
           st == set_context_property(
                     set_context_property(Store, t, "req_id", id), t, "req_start", clock)
       IN  /\ context' = st.context
           /\ heap' = st.heap
           /\ seeded' = [seeded EXCEPT ![serving[t]] = [req_id |-> id, req_start |-> clock]]
    /\ nUuid' = nUuid + 1
    /\ correlated' = [correlated EXCEPT ![t] = TRUE]
    /\ UNCHANGED <<nTasks, parent, inherited, serving, nReq, sessionSet, clock, logVars,
                   jsonVars, cfgVars>>

\* application code calls set_context_property
SetContextProperty(cur, name, value) ==
    /\ AppRuns(cur)
    /\ LET st == set_context_property(Store, cur, name, value)
       IN  /\ context' = st.context
           /\ heap' = st.heap
    /\ sessionSet' = IF cur # NoTask /\ serving[cur] # 0 /\ name = "session_id"
                     THEN [sessionSet EXCEPT ![serving[cur]] = TRUE]
                     ELSE sessionSet
    /\ last' = [op |-> "set",
                task |-> cur,
                req |-> IF cur = NoTask THEN 0 ELSE serving[cur],
                correlated |-> cur # NoTask /\ correlated[cur],
                ambient |-> cur # NoTask /\ context[cur] # NoContext,
                record |-> [name |-> name, value |-> value],
                outcome |-> IF cur = NoTask THEN "no task" ELSE "stored",
                text |-> <<>>]
    /\ UNCHANGED <<nTasks, parent, inherited, serving, correlated, nReq, seeded, nUuid,
                   clock, LogRecordFields, jsonVars, cfgVars>>

(* An application log call: the record goes to the `default` handler,      *)
(* through its keepalive_timeout filter and the JSONFormatter.             *)
Log(cur, record) ==
    LET f == KeepAliveTimeoutFilter_filter(record)
        r == JSONFormatter_format(record, LogRecordFields, Store, cur)
        outcome == CASE f = "drop" -> "suppressed"
                     [] f = "raise" -> "filter raised"
                     [] f = "pass" /\ r.raised # "" -> "format raised"
                     [] OTHER -> "delivered"
    IN  /\ AppRuns(cur)
        /\ LogRecordFields' = IF f = "pass" THEN r.fields ELSE LogRecordFields
        /\ last' = [op |-> "log",
                    task |-> cur,
                    req |-> IF cur = NoTask THEN 0 ELSE serving[cur],
                    correlated |-> cur # NoTask /\ correlated[cur],
                    ambient |-> cur # NoTask /\ context[cur] # NoContext,
                    record |-> record,
                    outcome |-> outcome,
                    text |-> IF outcome = "delivered" THEN r.text ELSE <<>>]
        /\ UNCHANGED <<storeVars, jsonVars, cfgVars>>

(* The response middleware, run by the task of the request: the access     *)
(* record goes to the `request` handler, through its nohealthz filter and  *)
(* the JSONReqFormatter.                                                   *)
log_json_post(t, request, response) ==
    /\ parent[t] = NoTask
    /\ serving[t] # 0
    /\ LET req_id == OrStr(get_context_property(Store, t, "req_id"), "unknown")
           time_taken == elapsed(clock, get_context_property(Store, t, "req_start"))
           noStatus == response.isNone \/ ~response.hasStatus
           level == IF noStatus THEN ""
                    ELSE IF 0 < response.status /\ response.status < 400
                         THEN "INFO" ELSE "WARNING"
           access == [name |-> "sanic.access", levelname |-> level, msg |-> None,
                      created |-> clock, hasRequest |-> TRUE, request |-> request,
                      response |-> response, time |-> time_taken, req_id |-> req_id]
           f == NoHealthzFilter_filter(access)
           r == JSONReqFormatter_format(access, Store, t)
           outcome == CASE noStatus -> "middleware raised"
                        [] f = "drop" -> "suppressed"
                        [] f = "raise" -> "filter raised"
                        [] f = "pass" /\ r.raised # "" -> "format raised"
                        [] OTHER -> "delivered"
       IN  last' = [op |-> "access",
                    task |-> t,
                    req |-> serving[t],
                    correlated |-> correlated[t],
                    ambient |-> context[t] # NoContext,
                    record |-> access,
                    outcome |-> outcome,
                    text |-> IF outcome = "delivered" THEN r.text ELSE <<>>]
    /\ serving' = [serving EXCEPT ![t] = 0]
    /\ correlated' = [correlated EXCEPT ![t] = FALSE]
    /\ UNCHANGED <<nTasks, context, heap, parent, inherited, nReq, seeded, sessionSet,
                   nUuid, clock, LogRecordFields, jsonVars, cfgVars>>

Tick ==
    /\ clock < MaxClock
    /\ clock' = clock + 1
    /\ UNCHANGED <<nTasks, context, heap, parent, inherited, serving, correlated, nReq,
                   seeded, sessionSet, nUuid, logVars, jsonVars, cfgVars>>

Next ==
    \/ ServerAccept
    \/ \E p \in Created : Spawn(p)
    \/ \E t \in Created : RequestStart(t)
    \/ \E t \in Created : log_json_pre(t)
    \/ \E cur \in Created \cup {NoTask}, name \in AppNames, value \in OneSessionId :
           SetContextProperty(cur, name, value)
    \/ \E cur \in Created \cup {NoTask}, record \in PlainRecords : Log(cur, record)
    \/ \E t \in Created, request \in PlainRequests, response \in PlainResponses :
           log_json_post(t, request, response)

Spec == Init /\ [][Next]_vars

(* ---------------------------- the context store alone ------------------ *)

NextStore ==
    \/ ServerAccept
    \/ \E p \in Created : Spawn(p)
    \/ \E t \in Created : RequestStart(t)
    \/ \E t \in Created : log_json_pre(t)
    \/ \E cur \in Created \cup {NoTask}, name \in AppNames, value \in SessionIds :
           SetContextProperty(cur, name, value)

SpecStore == Init /\ [][NextStore]_vars

(* ---------------------------- the access log alone --------------------- *)

NextAccess ==
    \/ ServerAccept
    \/ \E t \in Created : RequestStart(t)
    \/ \E t \in Created : log_json_pre(t)
    \/ \E t \in Created, request \in Requests, response \in Responses :
           log_json_post(t, request, response)
    \/ Tick

SpecAccess == Init /\ [][NextAccess]_vars

(* ---------------------------- one connection and its clock ------------- *)

\* responses by status: below 400, from 400 on, and not above 0
StatusResponses == {Response(200), Response(404), Response(0)}

NextElapsed ==
    \/ nTasks < MaxConn /\ ServerAccept
    \/ \E t \in Created : RequestStart(t)
    \/ \E t \in Created : log_json_pre(t)
    \/ \E t \in Created, request \in PlainRequests, response \in StatusResponses :
           log_json_post(t, request, response)
    \/ Tick

SpecElapsed == Init /\ [][NextElapsed]_vars

(* ---------------------------- odd records and responses ---------------- *)

\* a response object that lacks attributes, and the None of a websocket
ResponseLacking(hasStatus, hasBody) ==
    [isNone |-> FALSE, hasStatus |-> hasStatus, status |-> IF hasStatus THEN 200 ELSE 0,
     hasBody |-> hasBody, bodyLen |-> IF hasBody THEN 2 ELSE 0]

ResponseNone ==
    [isNone |-> TRUE, hasStatus |-> FALSE, status |-> 0, hasBody |-> FALSE, bodyLen |-> 0]

OddResponses ==
    {ResponseLacking(hs, hb) : hs \in BOOLEAN, hb \in BOOLEAN} \cup {ResponseNone}

\* the msg None of a record, beside records whose msg is text
NoMsg == [isNone |-> TRUE, v |-> <<>>]

\* records logged on the sanic.access logger by code other than log_json_post
AccessRecord(request, response, created) ==
    [name |-> "sanic.access", levelname |-> "INFO", msg |-> NoMsg, created |-> created,
     hasRequest |-> TRUE, request |-> request, response |-> response, time |-> 0,
     req_id |-> "unknown"]

EmitRecords ==
    {AccessRecord(rq, rs, clock) : rq \in PlainRequests, rs \in OddResponses}
        \cup PlainRecords

\* application records with a msg the keepalive filter looks into, or None
OddRecords ==
    { AppRecord(<<"KeepAlive Timeout">>, <<>>, clock),
      [AppRecord(<<>>, <<>>, clock) EXCEPT !.msg = NoMsg] }

(* A log call on the sanic.access logger: the record goes to the `request` *)
(* handler, through its nohealthz filter and the JSONReqFormatter.         *)
EmitAccess(cur, record) ==
    LET f == NoHealthzFilter_filter(record)
        r == JSONReqFormatter_format(record, Store, cur)
        outcome == CASE f = "drop" -> "suppressed"
                     [] f = "raise" -> "filter raised"
                     [] f = "pass" /\ r.raised # "" -> "format raised"
                     [] OTHER -> "delivered"
    IN  /\ AppRuns(cur)
        /\ last' = [op |-> "emit",
                    task |-> cur,
                    req |-> IF cur = NoTask THEN 0 ELSE serving[cur],
                    correlated |-> cur # NoTask /\ correlated[cur],
                    ambient |-> cur # NoTask /\ context[cur] # NoContext,
                    record |-> record,
                    outcome |-> outcome,
                    text |-> IF outcome = "delivered" THEN r.text ELSE <<>>]
        /\ UNCHANGED <<storeVars, LogRecordFields, jsonVars, cfgVars>>

NextOdd ==
    \/ nTasks < MaxConn /\ ServerAccept
    \/ \E t \in Created : RequestStart(t)
    \/ \E t \in Created : log_json_pre(t)
    \/ \E cur \in Created \cup {NoTask}, record \in OddRecords : Log(cur, record)
    \/ \E cur \in Created \cup {NoTask}, record \in EmitRecords : EmitAccess(cur, record)
    \/ \E t \in Created, request \in PlainRequests, response \in OddResponses :
           log_json_post(t, request, response)

SpecOdd == Init /\ [][NextOdd]_vars

(* ---------------------------- the formatter alone ---------------------- *)

\* the extras application code passes along with a log call
Extras ==
    { <<>>,
      << <<"level", Str(<<"fake">>)>> >>,
      << <<"request_id", Str(<<"forged">>)>> >>,
      << <<"type", Str(<<"event">>)>> >> }

ExtraRecords == {AppRecord(<<"hello">>, e, clock) : e \in Extras}

NextFormat ==
    \/ ServerAccept
    \/ \E t \in Created : RequestStart(t)
    \/ \E t \in Created : log_json_pre(t)
    \/ \E cur \in Created \cup {NoTask}, record \in ExtraRecords : Log(cur, record)

SpecFormat == Init /\ [][NextFormat]_vars

(* ---------------------------- events and extras ----------------------- *)

\* extras of application events: a key of the caller's own, and event records
EventExtras ==
    { <<>>,
      << <<"user", Str(<<"u1">>)>> >>,
      << <<"user", Str(<<"u2">>)>> >>,
      << <<"type", Str(<<"event">>)>>, <<"event_type", Str(<<"login">>)>> >>,
      << <<"type", Str(<<"event">>)>> >> }

EventRecords == {AppRecord(<<"hello">>, e, clock) : e \in EventExtras}

NextEvents ==
    \/ nTasks < MaxConn /\ ServerAccept
    \/ \E t \in Created : RequestStart(t)
    \/ \E t \in Created : log_json_pre(t)
    \/ \E cur \in Created \cup {NoTask}, record \in EventRecords : Log(cur, record)

SpecEvents == Init /\ [][NextEvents]_vars

(* ---------------------------- configuring alone ---------------------- *)

\* application code calls configuration(); KUBERNETES_PORT is set or not
Configuration(kubernetes) ==
    LET c == configuration(objects, kubernetes)
    IN  /\ nCalls < MaxCalls
        /\ objects' = c.objs
        /\ returned' = c.config
        /\ nCalls' = nCalls + 1
        /\ UNCHANGED <<installed, taskFactory, storeVars, logVars, jsonVars>>

\* setup_logging() or setup_logging(config=config), config from configuration()
SetupLogging(config, kubernetes) ==
    LET r == setup_logging(objects, config, kubernetes)
    IN  /\ nCalls < MaxCalls
        /\ taskFactory' = "_task_factory"
        /\ objects' = r.objs
        /\ installed' = r.installed
        /\ nCalls' = nCalls + 1
        /\ UNCHANGED <<returned, storeVars, logVars, jsonVars>>

SetupSanicLogging(kubernetes) ==
    LET r == setup_sanic_logging(objects, kubernetes)
    IN  /\ nCalls < MaxCalls
        /\ taskFactory' = "_task_factory"
        /\ objects' = r.objs
        /\ installed' = r.installed
        /\ nCalls' = nCalls + 1
        /\ UNCHANGED <<returned, storeVars, logVars, jsonVars>>

InitConfig == InitStore /\ InitLog /\ InitJsonIdle /\ InitModule

NextConfig ==
    \/ \E kubernetes \in BOOLEAN : Configuration(kubernetes)
    \/ \E config \in {NoConfig, returned}, kubernetes \in BOOLEAN :
           SetupLogging(config, kubernetes)
    \/ \E kubernetes \in BOOLEAN : SetupSanicLogging(kubernetes)

SpecConfig == InitConfig /\ [][NextConfig]_vars

(* ---------------------------- json_string alone ------------------------ *)

ScalarValues == {Str(s) : s \in SeqsUpTo(Alphabet, MaxLen)} \cup {Num("7"), PyNone}
MessageValues == ScalarValues \cup {Obj}

\* the dicts json_string is tried on: one or two string keys
Messages ==
    {<<<<"k1", v>>>> : v \in MessageValues}
    \cup {<<<<"k1", v>>, <<"k2", w>>>> : v \in MessageValues, w \in MessageValues}

InitJson ==
    /\ InitStore
    /\ InitLog
    /\ InitConfigured
    /\ jsMessage \in Messages
    /\ jsText = NoText

JsonString ==
    /\ jsText = NoText
    /\ jsText' = json_string(jsMessage)
    /\ UNCHANGED <<jsMessage, storeVars, logVars, cfgVars>>

NextMessage ==
    /\ jsText # NoText
    /\ jsMessage' \in Messages
    /\ jsText' = NoText
    /\ UNCHANGED <<storeVars, logVars, cfgVars>>

NextJson == JsonString \/ NextMessage

SpecJson == InitJson /\ [][NextJson]_vars

(* ---------------------------- claims on json_string -------------------- *)

JsonCalled == jsText # NoText

\* the prefix the specification gives the fallback record
SpecErrorPrefix == "Log message not serializable to json: "

(* C6: for every message dict holding a value that is not JSON             *)
(* serializable, json_string returns text that parses as a JSON object     *)
(* with the single key `error`, whose string value starts with exactly     *)
(* "Log message not serializable to json: ".                               *)
C6_FallbackShape ==
    (JsonCalled /\ ~Serializable(jsMessage)) =>
        LET r == JsonLoads(jsText)
        IN  /\ r.ok
            /\ Keys(r.obj) = {"error"}
            /\ Item(r.obj, "error").t = "str"
            /\ Len(Item(r.obj, "error").s) >= 1
            /\ Item(r.obj, "error").s[1] = SpecErrorPrefix

(* C7: round trip.  For every message dict with string keys and scalar     *)
(* values, the text json_string returns parses as JSON to a dict in which  *)
(* every key of the input maps to the input's value.                       *)
C7_RoundTrip ==
    (JsonCalled /\ Serializable(jsMessage)) =>
        LET r == JsonLoads(jsText)
        IN  /\ r.ok
            /\ \A k \in Keys(jsMessage) :
                   HasKey(r.obj, k) /\ Item(r.obj, k) = Item(jsMessage, k)


(* ---------------------------- claims on the context store -------------- *)

(* C1: every record formatted by a task that works for a request, the      *)
(* request's own task or a task spawned from it after the request was      *)
(* seeded, carries the request_id seeded for that request, also when the   *)
(* spawned task is still running after a later request was seeded.         *)
C1_RequestIsolation ==
    (last.op = "log" /\ last.outcome = "delivered" /\ last.correlated) =>
        LET r == JsonLoads(last.text)
        IN  /\ r.ok
            /\ HasKey(r.obj, "request_id")
            /\ Item(r.obj, "request_id") = Str(<<seeded[last.req].req_id>>)

C4_AmbientFields ==
    (last.op \in {"log", "access"} /\ last.outcome = "delivered" /\ last.ambient) =>
        LET r == JsonLoads(last.text)
        IN  /\ r.ok
            /\ HasKey(r.obj, "request_id")
            /\ HasKey(r.obj, "session_id")
            /\ last.correlated =>
                   Item(r.obj, "request_id") = Str(<<seeded[last.req].req_id>>)
            /\ (last.correlated /\ ~sessionSet[last.req]) =>
                   Item(r.obj, "session_id") = Str(<<>>)

(* ---------------------------- claims on the access log ----------------- *)

(* C3: while a seeded request is served, its task reads the req_id that    *)
(* log_json_pre seeded for it; and log_json_post of that request hands the *)
(* access record that req_id and the time elapsed since the req_start      *)
(* seeded for it.                                                          *)
C3_OwnSeed ==
    /\ \A t \in Created :
           correlated[t] =>
               get_context_property(Store, t, "req_id") = Some(seeded[serving[t]].req_id)
    /\ (last.op = "access" /\ last.correlated) =>
           /\ last.record.req_id = seeded[last.req].req_id
           /\ last.record.time = last.record.created - seeded[last.req].req_start

(* C10: an access record is suppressed exactly when the path of its        *)
(* request is '/healthz', and is delivered otherwise; the filter           *)
(* suppresses no application record.                                       *)
C10_HealthzOnly ==
    /\ (last.op = "access" /\ last.outcome \in {"suppressed", "delivered"}) =>
           (last.outcome = "suppressed" <=> last.record.request.path = HealthzPath)
    /\ \A record \in PlainRecords : NoHealthzFilter_filter(record) # "drop"

(* ---------------------------- claims on the formatter ------------------ *)

(* C5: a log call made without a context, by no task or by a task without  *)
(* the attribute, is formatted without raising, and its record has neither *)
(* a request_id nor a session_id key (for records whose extras do not      *)
(* themselves name these keys).                                            *)
C5_NoContext ==
    (/\ last.op = "log"
     /\ ~last.ambient
     /\ ~HasKey(last.record.extra, "request_id")
     /\ ~HasKey(last.record.extra, "session_id")) =>
        /\ last.outcome = "delivered"
        /\ LET r == JsonLoads(last.text)
           IN  /\ r.ok
               /\ ~HasKey(r.obj, "request_id")
               /\ ~HasKey(r.obj, "session_id")

(* C8: in a delivered record, a canonical key that the extras also name    *)
(* has its canonical value: the one format computes from the record, and   *)
(* for request_id the one seeded for the request of the task.              *)
C8_CanonicalWins ==
    (last.op = "log" /\ last.outcome = "delivered") =>
        LET r == JsonLoads(last.text)
        IN  /\ r.ok
            /\ \A k \in Keys(last.record.extra) \cap Keys(BaseMessage(last.record)) :
                   Item(r.obj, k) = Item(BaseMessage(last.record), k)
            /\ (HasKey(last.record.extra, "request_id") /\ last.correlated) =>
                   Item(r.obj, "request_id") = Str(<<seeded[last.req].req_id>>)

(* C9: the text format returns for a record, made without a context, is    *)
(* the text a formatter that has formatted nothing before returns for it.  *)
C9_Determinism ==
    (last.op = "log" /\ last.outcome = "delivered" /\ ~last.ambient) =>
        last.text = JSONFormatter_format(last.record, NoFields, Store, NoTask).text

(* C17: in a delivered record, every extra of the log call whose key is   *)
(* not one the formatter sets itself is there with the value the caller    *)
(* gave, on the first record a formatter formats and on later ones.        *)
C17_ExtrasVerbatim ==
    (last.op = "log" /\ last.outcome = "delivered") =>
        LET r == JsonLoads(last.text)
            extra == last.record.extra
        IN  /\ r.ok
            /\ \A i \in 1..Len(extra) :
                   extra[i][1] \notin (Keys(BaseMessage(last.record))
                                       \cup {"function", "file", "event_type",
                                             "request_id", "session_id"}) =>
                       /\ HasKey(r.obj, extra[i][1])
                       /\ Item(r.obj, extra[i][1]) = extra[i][2]

(* C19: a log call that passed the filter is formatted without raising;    *)
(* its record has an event_type key exactly when its type is 'event', with *)
(* the value supplied, and function and file keys only when its type is    *)
(* 'log'.                                                                  *)
C19_FormatNeverRaises ==
    (last.op = "log" /\ last.outcome # "suppressed" /\ last.outcome # "filter raised") =>
        /\ last.outcome = "delivered"
        /\ LET r == JsonLoads(last.text)
               type == RecordType(last.record)
           IN  /\ r.ok
               /\ HasKey(r.obj, "event_type") <=> type = Str(<<"event">>)
               /\ HasKey(last.record.extra, "event_type") =>
                      Item(r.obj, "event_type") = Item(last.record.extra, "event_type")
               /\ HasKey(r.obj, "function") => type = Str(<<"log">>)
               /\ HasKey(r.obj, "file") => type = Str(<<"log">>)

(* C20: whatever calls of configuration(), setup_logging() and           *)
(* setup_sanic_logging() have been made, DEFAULT_LOGGING with its nested   *)
(* dicts has the value it had when the module was imported, and            *)
(* configuration() returns what it returned then, with KUBERNETES_PORT set *)
(* and without.                                                            *)
C20_DefaultsUnchanged ==
    /\ Deep(objects, DEFAULT_LOGGING) = Deep(InitialObjects, DEFAULT_LOGGING)
    /\ \A kubernetes \in BOOLEAN :
           LET now == configuration(objects, kubernetes)
               first == configuration(InitialObjects, kubernetes)
           IN  Deep(now.objs, now.config) = Deep(first.objs, first.config)

(* ---------------------------- claims on one connection ----------------- *)

C13_Sentinel ==
    (last.op = "access" /\ ~last.ambient) => last.record.time = -1

(* C16: for a seeded request the time log_json_post measures is not        *)
(* negative and not less than the time it would have measured at the       *)
(* moment of the seeding.                                                  *)
C16_ElapsedMonotone ==
    (last.op = "access" /\ last.correlated) =>
        /\ last.record.time >= 0
        /\ last.record.time
               >= elapsed(seeded[last.req].req_start, Some(seeded[last.req].req_start))

(* C16, witness: a request seeded at clock value 0 has been answered after *)
(* the clock advanced.                                                     *)
C16_SeededAtZero ==
    /\ last.op = "access"
    /\ last.correlated
    /\ seeded[last.req].req_start = 0
    /\ last.record.created >= 1

(* ---------------------------- claims on odd records -------------------- *)

(* C11: neither filter raises, and a record whose applicability a filter   *)
(* cannot determine (no request attribute, msg None) is not suppressed.    *)
C11_FiltersFailOpen ==
    (last.op \in {"log", "emit", "access"} /\ last.outcome # "middleware raised") =>
        /\ last.outcome # "filter raised"
        /\ (last.op = "log" /\ last.record.msg.isNone) => last.outcome # "suppressed"
        /\ (last.op = "emit" /\ ~last.record.hasRequest) => last.outcome # "suppressed"

(* C14: for a response object without a status or without a body, both    *)
(* log_json_post and JSONReqFormatter.format complete, and the record has  *)
(* status_code '' where the status lacks and length -1 where the body      *)
(* lacks.                                                                  *)
C14_MalformedResponse ==
    (/\ last.op \in {"emit", "access"}
     /\ last.record.hasRequest
     /\ ~last.record.response.isNone
     /\ ~(last.record.response.hasStatus /\ last.record.response.hasBody)) =>
        /\ last.outcome = "delivered"
        /\ LET r == JsonLoads(last.text)
           IN  /\ r.ok
               /\ ~last.record.response.hasStatus =>
                      Item(r.obj, "status_code") = Str(<<>>)
               /\ ~last.record.response.hasBody =>
                      Item(r.obj, "length") = Num(ToString(-1))

(* C18: a delivered access record has a length key, len(response.body) for *)
(* a response with a body and -1 for a response without one or for None;   *)
(* for None its type is 'ws_access' and it has no status_code key,         *)
(* otherwise its type is 'access' and it has a status_code key.            *)
C18_LengthAndType ==
    (last.op \in {"emit", "access"} /\ last.outcome = "delivered") =>
        LET r == JsonLoads(last.text)
            rs == last.record.response
        IN  /\ r.ok
            /\ HasKey(r.obj, "length")
            /\ Item(r.obj, "length")
                   = IF ~rs.isNone /\ rs.hasBody
                     THEN Num(ToString(rs.bodyLen)) ELSE Num(ToString(-1))
            /\ Item(r.obj, "type")
                   = IF rs.isNone THEN Str(<<"ws_access">>) ELSE Str(<<"access">>)
            /\ HasKey(r.obj, "status_code") <=> ~rs.isNone

====
